---------------------------- MODULE Spec2Model ----------------------------
(***************************************************************************)
(* Mini ATM simulator: the user store and its lookup (backend/server.js,   *)
(* src/hooks/useATMConnection.ts), the card reader's continuous-read mode  *)
(* (backend/services/rfidReader.js), the WebSocket notification channel    *)
(* (backend/server.js), the client hook's socket and session              *)
(* (useATMConnection.ts) and the thermal printer's receipt sequence        *)
(* (printerService.js).                                                    *)
(*                                                                         *)
(* Each component has its own specification (SpecLookup, SpecReader,       *)
(* SpecChannel, SpecClient, SpecPrinter, SpecPrintPair, SpecPrintText,     *)
(* SpecRest, SpecPage, SpecScan, SpecPolling) over the shared variables,   *)
(* and SpecServer runs the server's operations together;                   *)
(* a component that a specification does not exercise stays in its idle    *)
(* state.                                                                  *)
(***************************************************************************)
EXTENDS Integers, Sequences, FiniteSets

(***************************************************************************)
(* Bounds of the model.                                                    *)
(***************************************************************************)
MaxUsers == 2

MaxSockets == 3

MaxInFlight == 2

MaxTime == 8

MaxConns == 2

MaxSent == 3

MaxTaps == 1
MaxCalls == 2      \* printText calls made one after the other

(***************************************************************************)
(* Constants of the program.                                               *)
(***************************************************************************)
PollIntervalMs == 1000

DebounceMs == 5000

ESC == 27

GS == 29

(***************************************************************************)
(* Values.  null / undefined of the JavaScript code are the strings below; *)
(* an absent record is a record of the same shape so that TLC can compare. *)
(***************************************************************************)
NULL == "null"

UIDs == {"A1B2C3D4", "E5F6G7H8", "ZZZZZZZZ"}

Names == {"Juan Dela Cruz", "Maria Santos"}

Records == [uid : UIDs, name : Names]

NoUser == [uid |-> NULL, name |-> NULL]

VARIABLES
    usersDatabase,   \* server.js: usersDatabase.users, loaded at start-up
    mockUsers,       \* useATMConnection.ts: the users of mockUsers.json
    res,             \* server.js: the response of the last GET /api/user/:uid
    health,          \* server.js: the response of the last GET /api/health
    scanRes,         \* server.js: the response of the last POST /api/rfid/scan
                     \* and the readCard calls its handler made
    USE_MOCK_DATA,   \* useATMConnection.ts: build-time mode of the client
    currentUser,     \* useATMConnection.ts: useState currentUser
    error,           \* useATMConnection.ts: useState error
    isConnected,     \* useATMConnection.ts: useState isConnected
    isScanning,      \* useATMConnection.ts: useState isScanning
    ws,              \* useATMConnection.ts: useState ws (0 is null)
    mounted,         \* the component using the hook: "no", "yes", "gone"
    effWs,           \* ws as captured by the disconnect of the installed effect
    sockets,         \* readyState of every WebSocket the client created
    scanning,        \* scanCard calls awaiting their scan
    pending,         \* fetchUserData calls awaiting their fetch, per caller and uid
    demoing,         \* demoLogin calls awaiting loadMockUsers
    apiCalls,        \* the backend endpoints the client has sent a request to
    latest,          \* the most recently initiated lookup and its outcome, or
                     \* that logout() was called since
    printCall,       \* Index.tsx handlePrint / printReceipt: the last call
    readerClass,     \* rfidReader.js: the class of the reader in use
    polling,         \* startContinuousRead: "idle", "on" (interval set), "stopped"
    now,             \* time, in poll intervals
    pollDue,         \* the interval callback of this instant has not run yet
    lastUid,         \* RFIDReader.startContinuousRead: let lastUid
    timers,          \* RFIDReader.startContinuousRead: the pending setTimeout clears
    lastRead,        \* what the preceding poll read: a uid, null, "error", or "none"
    lastEmit,        \* per uid, when onCardDetected was last called with it (-1: never)
    currentIndex,    \* MockRFIDReader: this.currentIndex
    mockInFlight,    \* MockRFIDReader: readCard calls inside their 500 ms delay
    mockLast,        \* MockRFIDReader: the uid of the last onCardDetected call
    rfidReader,      \* server.js: rfidReader is set (the RFIDReader was constructed)
    printerService,  \* server.js: printerService is set
    conns,           \* server.js: per WebSocket connection, its state, its
                     \* interval timers and the messages sent on it
    card,            \* the card on the reader (null: none)
    tap,             \* how many times a card has been put on the reader
    printerConnected, \* printerService.js: this.isConnected
    port,            \* printerService.js: this.port, and what its open handler wrote
    runs,            \* POST /api/print requests: body, progress and answer
    written          \* per request, the segments its printReceipt has written

storeVars == <<usersDatabase, mockUsers>>
restVars == <<res, health, scanRes>>
hookState == <<currentUser, error, isConnected, isScanning, ws>>
pageVars == <<demoing, apiCalls, latest, printCall>>
clientVars == <<USE_MOCK_DATA, hookState, mounted, effWs, sockets, scanning, pending,
                pageVars>>
readerVars == <<readerClass, polling, now, pollDue, lastUid, timers, lastRead,
                lastEmit, currentIndex, mockInFlight, mockLast>>
channelVars == <<rfidReader, printerService, conns, card, tap>>
printerVars == <<printerConnected, port, runs, written>>
vars == <<storeVars, restVars, clientVars, readerVars, channelVars, printerVars>>

-----------------------------------------------------------------------------
(***************************************************************************)
(* The user store.  users.json / mockUsers.json are data files: any list   *)
(* of account records whose uid is unique (the natural key).               *)
(***************************************************************************)
UniqueUids(users) ==
    \A i, j \in 1..Len(users) : users[i].uid = users[j].uid => i = j

Stores ==
    {s \in UNION {[1..n -> Records] : n \in 0..MaxUsers} : UniqueUids(s)}

\* the demo users of the README
DemoUsers ==
    << [uid |-> "A1B2C3D4", name |-> "Juan Dela Cruz"],
       [uid |-> "E5F6G7H8", name |-> "Maria Santos"] >>

\* Array.prototype.find with the predicate u => u.uid === uid
FindWrongKey(users, uid) ==
    IF Len(users) > 0 THEN users[1] ELSE NoUser

Find(users, uid) ==
    IF \E i \in 1..Len(users) : users[i].uid = uid
    THEN users[CHOOSE i \in 1..Len(users) :
                  /\ users[i].uid = uid
                  /\ \A j \in 1..(i - 1) : users[j].uid # uid]
    ELSE NoUser

NoResponse == [status |-> 0, uid |-> NULL, body |-> NoUser, error |-> NULL]

\* GET /api/user/:uid
UserResponse(uid) ==
    LET user == Find(usersDatabase, uid)
    IN  IF user # NoUser
        THEN [status |-> 200, uid |-> uid, body |-> user, error |-> NULL]
        ELSE [status |-> 404, uid |-> uid, body |-> NoUser,
              error |-> "User not found"]

\* GET /api/user/:uid taking the record it answers out of the list
GetUserRemoves(uid) ==
    /\ res' = UserResponse(uid)
    /\ usersDatabase' = SelectSeq(usersDatabase, LAMBDA u : u.uid # uid)
    /\ UNCHANGED <<mockUsers, health, scanRes, clientVars, readerVars, channelVars,
                   printerVars>>

GetUser(uid) ==
    /\ res' = UserResponse(uid)
    /\ UNCHANGED <<storeVars, health, scanRes, clientVars, readerVars, channelVars,
                   printerVars>>

\* no GET /api/health answered yet
NoHealth == [status |-> 0, rfid |-> FALSE, printer |-> FALSE]

\* no POST /api/rfid/scan answered yet
NoScan ==
    [status |-> 0, uid |-> NULL, timestamp |-> <<>>, error |-> NULL, reads |-> 0]

\* the REST endpoints before any request
RestIdle ==
    /\ res = NoResponse
    /\ health = NoHealth
    /\ scanRes = NoScan

-----------------------------------------------------------------------------
(***************************************************************************)
(* The client hook useATMConnection.                                       *)
(***************************************************************************)
SockIds == 1..MaxSockets

LookupUIDs == UIDs \cup {NULL}

\* who awaits a fetchUserData call: scanCard resets isScanning after it
Callers == {"call", "scan"}

ErrConnection == "Connection error. Switching to demo mode."
ErrLoad == "Failed to load user data"
ErrNotRecognized == "Card not recognized"
ErrScan == "Card scan failed. Please try again."

ErrNoDemoUsers == "No demo users available"
ErrDemoLogin == "Demo login failed"
ErrNoSession == "No active session"
ErrPrint == "Failed to print receipt"

\* no lookup initiated yet
NoLookup == [uid |-> NULL, outcome |-> "none"]

\* handlePrint has not been called
NoPrintCall == [state |-> "idle", ok |-> FALSE, toast |-> FALSE]

\* the asynchronous calls of the hook that have not completed
InFlight ==
    scanning + demoing
    + Cardinality(UNION {{k} \X (1..pending[k]) : k \in Callers \X LookupUIDs})

Live(s) == sockets[s] \in {"connecting", "open"}

ClientIdle ==
    /\ currentUser = NoUser
    /\ error = NULL
    /\ isConnected = FALSE
    /\ isScanning = FALSE
    /\ ws = 0
    /\ mounted = "no"
    /\ effWs = 0
    /\ sockets = [s \in SockIds |-> "unused"]
    /\ scanning = 0
    /\ pending = [k \in Callers \X LookupUIDs |-> 0]
    /\ demoing = 0
    /\ apiCalls = {}
    /\ latest = NoLookup
    /\ printCall = NoPrintCall

\* A state setter of an unmounted component changes nothing.
SetState(user, err, conn, scan, sock) ==
    IF mounted = "yes"
    THEN /\ currentUser' = user
         /\ error' = err
         /\ isConnected' = conn
         /\ isScanning' = scan
         /\ ws' = sock
    ELSE UNCHANGED hookState

NewSocket == CHOOSE s \in SockIds :
    /\ sockets[s] = "unused"
    /\ \A t \in SockIds : t < s => sockets[t] # "unused"

\* WebSocket.close(): a socket not yet closed starts closing
CloseSocket(socks, s) ==
    IF s # 0 /\ socks[s] \in {"connecting", "open"}
    THEN [socks EXCEPT ![s] = "closing"]
    ELSE socks

\* The effect of a render: connect(), and the disconnect of that render as
\* its cleanup.  renderWs is the ws the render saw.
RunEffect(renderWs, user, conn, socks) ==
    IF USE_MOCK_DATA
    THEN /\ currentUser' = user
         /\ isConnected' = TRUE
         /\ error' = NULL
         /\ ws' = 0
         /\ sockets' = socks
         /\ effWs' = renderWs
    ELSE /\ \E s \in SockIds : sockets[s] = "unused"
         /\ currentUser' = user
         /\ isConnected' = conn
         /\ error' = error
         /\ ws' = NewSocket
         /\ sockets' = [socks EXCEPT ![NewSocket] = "connecting"]
         /\ effWs' = renderWs

\* First render and its effect (useEffect auto-connect).
Mount ==
    /\ mounted = "no"
    /\ mounted' = "yes"
    /\ RunEffect(0, currentUser, isConnected, sockets)
    /\ UNCHANGED <<storeVars, restVars, readerVars, channelVars, printerVars, USE_MOCK_DATA, pageVars, isScanning, scanning, pending>>

\* A render whose disconnect differs from the installed effect's (ws changed):
\* the installed cleanup, disconnect() with the ws it captured, then connect().
EffectRerun ==
    /\ mounted = "yes"
    /\ ws # effWs
    /\ RunEffect(ws, NoUser, FALSE, CloseSocket(sockets, effWs))
    /\ UNCHANGED <<storeVars, restVars, readerVars, channelVars, printerVars, USE_MOCK_DATA, pageVars, mounted, isScanning, scanning, pending>>

\* Unmount: the installed cleanup, disconnect() with the ws it captured.
Unmount ==
    /\ mounted = "yes"
    /\ mounted' = "gone"
    /\ sockets' = CloseSocket(sockets, effWs)
    /\ currentUser' = NoUser
    /\ isConnected' = FALSE
    /\ ws' = 0
    /\ UNCHANGED <<storeVars, restVars, readerVars, channelVars, printerVars, USE_MOCK_DATA, pageVars, error, isScanning, effWs, scanning, pending>>

\* websocket.onopen
OnOpen(s) ==
    /\ sockets[s] = "connecting"
    /\ sockets' = [sockets EXCEPT ![s] = "open"]
    /\ SetState(currentUser, NULL, TRUE, isScanning, ws)
    /\ UNCHANGED <<storeVars, restVars, readerVars, channelVars, printerVars, USE_MOCK_DATA, pageVars, mounted, effWs, scanning, pending>>

\* websocket.onerror; the browser closes a socket that failed
OnError(s) ==
    /\ sockets[s] \in {"connecting", "open", "closing"}
    /\ sockets' = [sockets EXCEPT ![s] = "closing"]
    /\ SetState(currentUser, ErrConnection, FALSE, isScanning, ws)
    /\ UNCHANGED <<storeVars, restVars, readerVars, channelVars, printerVars, USE_MOCK_DATA, pageVars, mounted, effWs, scanning, pending>>

\* websocket.onclose
OnClose(s) ==
    /\ sockets[s] \in {"connecting", "open", "closing"}
    /\ sockets' = [sockets EXCEPT ![s] = "closed"]
    /\ SetState(currentUser, error, FALSE, isScanning, ws)
    /\ UNCHANGED <<storeVars, restVars, readerVars, channelVars, printerVars, USE_MOCK_DATA, pageVars, mounted, effWs, scanning, pending>>

\* the lookup that is now the most recently initiated one
Asked(uid) == [uid |-> uid, outcome |-> "pending"]

\* fetchUserData that always asks the backend
StartFetchBackend(caller, uid) ==
    /\ pending' = [pending EXCEPT ![<<caller, uid>>] = @ + 1]
    /\ apiCalls' = apiCalls \cup {"/api/user"}

\* fetchUserData(uid) up to its first await: the fetch of mockUsers.json
\* from the page's own origin, or GET /api/user/:uid
StartFetch(caller, uid) ==
    /\ pending' = [pending EXCEPT ![<<caller, uid>>] = @ + 1]
    /\ apiCalls' = IF USE_MOCK_DATA THEN apiCalls
                   ELSE apiCalls \cup {"/api/user"}

\* websocket.onmessage with a card_detected event (a connected event is ignored)
OnMessage(s, uid) ==
    /\ sockets[s] = "open"
    /\ InFlight < MaxInFlight
    /\ StartFetch("call", uid)
    /\ latest' = Asked(uid)
    /\ UNCHANGED <<storeVars, restVars, readerVars, channelVars, printerVars, USE_MOCK_DATA, hookState, mounted, effWs, sockets, scanning,
                   demoing, printCall>>

\* a direct call of fetchUserData(uid)
FetchUserData(uid) ==
    /\ mounted = "yes"
    /\ InFlight < MaxInFlight
    /\ StartFetch("call", uid)
    /\ latest' = Asked(uid)
    /\ UNCHANGED <<storeVars, restVars, readerVars, channelVars, printerVars, USE_MOCK_DATA, hookState, mounted, effWs, sockets, scanning,
                   demoing, printCall>>

\* fetchUserData that keeps the session when its fetch fails
FetchOutcomeKeepsUser(uid, fetched) ==
    IF ~fetched THEN <<currentUser, ErrLoad>>
    ELSE IF USE_MOCK_DATA
    THEN LET user == Find(mockUsers, uid)
         IN  IF user # NoUser THEN <<user, NULL>>
             ELSE <<currentUser, ErrNotRecognized>>
    ELSE LET response == UserResponse(uid)
         IN  IF response.status = 200 THEN <<response.body, NULL>>
             ELSE <<currentUser, ErrLoad>>

\* what fetchUserData(uid) sets once its fetch has settled: <<user, error>>
FetchOutcome(uid, fetched) ==
    IF ~fetched THEN <<NoUser, ErrLoad>>
    ELSE IF USE_MOCK_DATA
    THEN LET user == Find(mockUsers, uid)
         IN  IF user # NoUser THEN <<user, NULL>>
             ELSE <<NoUser, ErrNotRecognized>>
    ELSE LET response == UserResponse(uid)
         IN  IF response.status = 200 THEN <<response.body, NULL>>
             ELSE <<NoUser, ErrLoad>>

\* fetchUserData(uid) from its fetch on; the finally of scanCard or
\* demoLogin follows it
FetchUserDataDone(caller, uid, fetched) ==
    /\ pending[<<caller, uid>>] > 0
    /\ pending' = [pending EXCEPT ![<<caller, uid>>] = @ - 1]
    /\ LET out == FetchOutcome(uid, fetched)
       IN  /\ SetState(out[1], out[2], isConnected,
                       IF caller = "scan" THEN FALSE ELSE isScanning, ws)
           /\ latest' = IF latest = Asked(uid)
                         THEN [latest EXCEPT !.outcome =
                                  IF out[1] # NoUser THEN "ok" ELSE "failed"]
                         ELSE latest
    /\ UNCHANGED <<storeVars, restVars, readerVars, channelVars, printerVars, USE_MOCK_DATA, mounted, effWs, sockets, scanning, demoing,
                   apiCalls, printCall>>

\* scanCard up to its first await: the 1500 ms delay, or POST /api/rfid/scan
ScanCard ==
    /\ mounted = "yes"
    /\ InFlight < MaxInFlight
    /\ scanning' = scanning + 1
    /\ SetState(currentUser, NULL, isConnected, TRUE, ws)
    /\ apiCalls' = IF USE_MOCK_DATA THEN apiCalls
                   ELSE apiCalls \cup {"/api/rfid/scan"}
    /\ latest' = [uid |-> NULL, outcome |-> "scanning"]
    /\ UNCHANGED <<storeVars, restVars, readerVars, channelVars, printerVars, USE_MOCK_DATA, mounted, effWs, sockets, pending, demoing, printCall>>

\* the uids scanCard can pass to fetchUserData: a random mock user, or the
\* uid POST /api/rfid/scan answered (null when no card was on the reader)
ScannedUIDs ==
    IF USE_MOCK_DATA THEN {mockUsers[i].uid : i \in 1..Len(mockUsers)}
    ELSE LookupUIDs

\* scanCard: the scan succeeded and fetchUserData(uid) is called
ScanCardFetch(uid) ==
    /\ scanning > 0
    /\ uid \in ScannedUIDs
    /\ scanning' = scanning - 1
    /\ StartFetch("scan", uid)
    /\ latest' = IF latest.outcome = "loggedout" THEN latest ELSE Asked(uid)
    /\ UNCHANGED <<storeVars, restVars, readerVars, channelVars, printerVars, USE_MOCK_DATA, hookState, mounted, effWs, sockets, demoing, printCall>>

\* scanCard whose failure path skips the finally
ScanCardFailKeepsScanning ==
    /\ scanning > 0
    /\ scanning' = scanning - 1
    /\ SetState(currentUser, ErrScan, isConnected, isScanning, ws)
    /\ UNCHANGED <<storeVars, restVars, readerVars, channelVars, printerVars, USE_MOCK_DATA, pageVars, mounted, effWs, sockets, pending>>

\* scanCard: the scan threw (fetch failed, response not ok, no mock user)
ScanCardFail ==
    /\ scanning > 0
    /\ scanning' = scanning - 1
    /\ SetState(currentUser, ErrScan, isConnected, FALSE, ws)
    /\ UNCHANGED <<storeVars, restVars, readerVars, channelVars, printerVars, USE_MOCK_DATA, pageVars, mounted, effWs, sockets, pending>>

\* demoLogin up to its first await, the fetch of mockUsers.json
DemoLogin ==
    /\ mounted = "yes"
    /\ InFlight < MaxInFlight
    /\ demoing' = demoing + 1
    /\ SetState(currentUser, NULL, isConnected, TRUE, ws)
    /\ latest' = [uid |-> NULL, outcome |-> "scanning"]
    /\ UNCHANGED <<storeVars, restVars, readerVars, channelVars, printerVars, USE_MOCK_DATA, mounted, effWs, sockets, scanning, pending, apiCalls,
                   printCall>>

\* demoLogin once the mock users are loaded: fetchUserData of the first
\* one, or the error and the finally when there is none
DemoLoginFetch ==
    /\ demoing > 0
    /\ demoing' = demoing - 1
    /\ IF Len(mockUsers) > 0
       THEN /\ StartFetch("scan", mockUsers[1].uid)
            /\ latest' = IF latest.outcome = "loggedout" THEN latest
                          ELSE Asked(mockUsers[1].uid)
            /\ UNCHANGED hookState
       ELSE /\ SetState(currentUser, ErrNoDemoUsers, isConnected, FALSE, ws)
            /\ UNCHANGED <<pending, apiCalls, latest>>
    /\ UNCHANGED <<storeVars, restVars, readerVars, channelVars, printerVars, USE_MOCK_DATA, mounted, effWs, sockets, scanning, printCall>>

\* demoLogin: loadMockUsers threw
DemoLoginFail ==
    /\ demoing > 0
    /\ demoing' = demoing - 1
    /\ SetState(currentUser, ErrDemoLogin, isConnected, FALSE, ws)
    /\ UNCHANGED <<storeVars, restVars, readerVars, channelVars, printerVars, USE_MOCK_DATA, mounted, effWs, sockets, scanning, pending, apiCalls,
                   latest, printCall>>

\* printReceipt that ends the session it prints
PrintReceiptEndsSession ==
    /\ mounted = "yes"
    /\ printCall.state # "waiting"
    /\ SetState(NoUser, error, isConnected, isScanning, ws)
    /\ printCall' = [state |-> "waiting", ok |-> FALSE, toast |-> FALSE]
    /\ apiCalls' = apiCalls \cup {"/api/print"}
    /\ UNCHANGED <<storeVars, restVars, readerVars, channelVars, printerVars, USE_MOCK_DATA, mounted, effWs, sockets, scanning, pending, demoing,
                   latest>>

\* handlePrint of the page: printReceipt up to its first await (the 1000 ms
\* delay, or POST /api/print); without a session printReceipt returns at
\* once and handlePrint goes on to its toast
PrintReceipt ==
    /\ mounted = "yes"
    /\ printCall.state # "waiting"
    /\ IF currentUser = NoUser
       THEN /\ SetState(currentUser, ErrNoSession, isConnected, isScanning, ws)
            /\ printCall' = [state |-> "done", ok |-> FALSE, toast |-> TRUE]
            /\ UNCHANGED apiCalls
       ELSE /\ UNCHANGED hookState
            /\ printCall' = [state |-> "waiting", ok |-> FALSE, toast |-> FALSE]
            /\ apiCalls' = IF USE_MOCK_DATA THEN apiCalls
                           ELSE apiCalls \cup {"/api/print"}
    /\ UNCHANGED <<storeVars, restVars, readerVars, channelVars, printerVars, USE_MOCK_DATA, mounted, effWs, sockets, scanning, pending, demoing,
                   latest>>

\* printReceipt from its await on (ok: the delay elapsed, or the backend
\* answered 2xx), then the 'Receipt Printed' toast of handlePrint
PrintReceiptDone(ok) ==
    /\ printCall.state = "waiting"
    /\ USE_MOCK_DATA => ok
    /\ SetState(currentUser, IF ok THEN error ELSE ErrPrint, isConnected,
                isScanning, ws)
    /\ printCall' = [state |-> "done", ok |-> ok, toast |-> TRUE]
    /\ UNCHANGED <<storeVars, restVars, readerVars, channelVars, printerVars, USE_MOCK_DATA, mounted, effWs, sockets, scanning, pending, demoing,
                   apiCalls, latest>>

\* logout
Logout ==
    /\ mounted = "yes"
    /\ SetState(NoUser, NULL, isConnected, isScanning, ws)
    /\ latest' = [uid |-> NULL, outcome |-> "loggedout"]
    /\ UNCHANGED <<storeVars, restVars, readerVars, channelVars, printerVars, USE_MOCK_DATA, mounted, effWs, sockets, scanning, pending, demoing,
                   apiCalls, printCall>>

-----------------------------------------------------------------------------
(***************************************************************************)
(* The card reader's continuous-read mode (rfidReader.js).  Time is        *)
(* counted in poll intervals; at one instant the interval callback and a   *)
(* clear timer that is due run in either order.  RFIDReader.readCard       *)
(* settles its promise synchronously, so a poll is one step.               *)
(***************************************************************************)
Debounce == DebounceMs \div PollIntervalMs

ReadResults == UIDs \cup {NULL, "error"}

mockCards == <<"A1B2C3D4", "E5F6G7H8", "I9J0K1L2", "M3N4O5P6">>

\* the fields of a request body that printReceipt reads
Fields == {"name", "accountType", "balance", "cardNumber"}

\* no request body
NoBody ==
    [name |-> "", accountType |-> "", balance |-> 0, cardNumber |-> <<>>,
     missing |-> Fields]

\* the POST /api/print requests the model follows
Requests == {"a", "b"}

\* the answers of POST /api/print: none yet, the mock echo of req.body,
\* the success and the 500
PrintAnswer(kind, body) ==
    CASE kind = "mock" ->
            [code |-> 200, success |-> TRUE,
             message |-> "Mock print (no hardware available)", data |-> body]
      [] kind = "printed" ->
            [code |-> 200, success |-> TRUE, message |-> "Receipt printed",
             data |-> NoBody]
      [] kind = "error" ->
            [code |-> 500, success |-> FALSE, message |-> "Print failed",
             data |-> NoBody]
      [] OTHER ->
            [code |-> 0, success |-> FALSE, message |-> "", data |-> NoBody]

\* a request that has not arrived.  timestamp: the handler's new Date();
\* plan: the sendCommand calls its printReceipt makes when no write fails;
\* attempts: the port.write calls of its printReceipt; cause: why the
\* printReceipt threw; split: another request wrote between two of its
\* segments
NoRun ==
    [body |-> NoBody, timestamp |-> 0, plan |-> <<>>, status |-> "idle",
     answer |-> PrintAnswer("none", NoBody), attempts |-> 0, cause |-> "none",
     split |-> FALSE]

\* the printer service before its port has opened
PrinterIdle ==
    /\ printerConnected = FALSE
    /\ port = [state |-> "opening", out |-> <<>>, writer |-> "none"]
    /\ runs = [r \in Requests |-> NoRun]
    /\ written = [r \in Requests |-> <<>>]

\* the WebSocket connections the server can be given
ConnIds == 1..MaxConns

\* server.js before any connection, without reader and printer
ChannelIdle ==
    /\ rfidReader = FALSE
    /\ printerService = FALSE
    /\ conns = [c \in ConnIds |-> [state |-> "none", timers |-> 0, sent |-> <<>>]]
    /\ card = NULL
    /\ tap = 0

ReaderIdle ==
    /\ readerClass = "RFIDReader"
    /\ polling = "idle"
    /\ now = 0
    /\ pollDue = FALSE
    /\ lastUid = NULL
    /\ timers = {}
    /\ lastRead = "none"
    /\ lastEmit = [u \in UIDs |-> -1]
    /\ currentIndex = 0
    /\ mockInFlight = 0
    /\ mockLast = NULL

\* startContinuousRead (either class): setInterval
StartContinuousRead ==
    /\ polling = "idle"
    /\ polling' = "on"
    /\ UNCHANGED <<storeVars, restVars, clientVars, channelVars, printerVars, readerClass, now, pollDue,
                   lastUid, timers, lastRead, lastEmit, currentIndex,
                   mockInFlight, mockLast>>

\* the handle's stop(): clearInterval
StopContinuousRead ==
    /\ polling = "on"
    /\ polling' = "stopped"
    /\ pollDue' = FALSE
    /\ UNCHANGED <<storeVars, restVars, clientVars, channelVars, printerVars, readerClass, now,
                   lastUid, timers, lastRead, lastEmit, currentIndex,
                   mockInFlight, mockLast>>

\* One poll interval passes; every timer that was due has run.
Tick ==
    /\ polling # "idle"
    /\ now < MaxTime
    /\ ~pollDue
    /\ \A t \in timers : t.due > now
    /\ now' = now + 1
    /\ pollDue' = (polling = "on")
    /\ UNCHANGED <<storeVars, restVars, clientVars, channelVars, printerVars, readerClass, polling,
                   lastUid, timers, lastRead, lastEmit, currentIndex,
                   mockInFlight, mockLast>>

\* the condition under which a poll calls onCardDetected(uid)
IsNewCardAlways(uid) == uid \in UIDs

IsNewCard(uid) == uid \in UIDs /\ uid # lastUid

\* an interval callback that gives up polling when readCard throws
PollReadStopsOnError(r) ==
    /\ readerClass = "RFIDReader"
    /\ pollDue
    /\ pollDue' = FALSE
    /\ lastRead' = r
    /\ polling' = IF r = "error" THEN "stopped" ELSE polling
    /\ IF IsNewCard(r)
       THEN /\ lastUid' = r
            /\ lastEmit' = [lastEmit EXCEPT ![r] = now]
            /\ timers' = timers \cup {[uid |-> r, due |-> now + Debounce]}
       ELSE UNCHANGED <<lastUid, lastEmit, timers>>
    /\ UNCHANGED <<storeVars, restVars, clientVars, channelVars, printerVars, readerClass, now,
                   currentIndex, mockInFlight, mockLast>>

\* RFIDReader: the interval callback, readCard having answered r
PollRead(r) ==
    /\ readerClass = "RFIDReader"
    /\ pollDue
    /\ pollDue' = FALSE
    /\ lastRead' = r
    /\ IF IsNewCard(r)
       THEN /\ lastUid' = r
            /\ lastEmit' = [lastEmit EXCEPT ![r] = now]
            /\ timers' = timers \cup {[uid |-> r, due |-> now + Debounce]}
       ELSE UNCHANGED <<lastUid, lastEmit, timers>>
    /\ UNCHANGED <<storeVars, restVars, clientVars, channelVars, printerVars, readerClass, polling, now,
                   currentIndex, mockInFlight, mockLast>>

\* RFIDReader: the setTimeout callback armed when t.uid was emitted
ClearTimer(t) ==
    /\ t \in timers
    /\ t.due <= now
    /\ timers' = timers \ {t}
    /\ lastUid' = IF lastUid = t.uid THEN NULL ELSE lastUid
    /\ UNCHANGED <<storeVars, restVars, clientVars, channelVars, printerVars, readerClass, polling, now,
                   pollDue, lastRead, lastEmit, currentIndex, mockInFlight,
                   mockLast>>

\* MockRFIDReader: the interval callback calls readCard, which starts its delay
MockPoll ==
    /\ readerClass = "MockRFIDReader"
    /\ pollDue
    /\ mockInFlight < MaxInFlight
    /\ pollDue' = FALSE
    /\ mockInFlight' = mockInFlight + 1
    /\ UNCHANGED <<storeVars, restVars, clientVars, channelVars, printerVars, readerClass, polling, now,
                   lastUid, timers, lastRead, lastEmit, currentIndex, mockLast>>

\* MockRFIDReader: readCard after its delay, and onCardDetected(uid)
MockReadDone ==
    /\ mockInFlight > 0
    /\ mockInFlight' = mockInFlight - 1
    /\ currentIndex' = (currentIndex + 1) % Len(mockCards)
    /\ lastRead' = mockCards[currentIndex + 1]
    /\ mockLast' = mockCards[currentIndex + 1]
    /\ UNCHANGED <<storeVars, restVars, clientVars, channelVars, printerVars, readerClass, polling, now,
                   pollDue, lastUid, timers, lastEmit>>

(***************************************************************************)
(* SpecReader: continuous reading over every sequence of poll results.     *)
(***************************************************************************)
InitReader ==
    /\ usersDatabase = <<>>
    /\ mockUsers = <<>>
    /\ RestIdle
    /\ USE_MOCK_DATA = TRUE
    /\ ClientIdle
    /\ \E c \in {"RFIDReader", "MockRFIDReader"} :
          /\ readerClass = c
          /\ polling = "idle"
          /\ now = 0
          /\ pollDue = FALSE
          /\ lastUid = NULL
          /\ timers = {}
          /\ lastRead = "none"
          /\ lastEmit = [u \in UIDs |-> -1]
          /\ currentIndex = 0
          /\ mockInFlight = 0
          /\ mockLast = NULL
    /\ ChannelIdle
    /\ PrinterIdle

NextReader ==
    \/ StartContinuousRead
    \/ StopContinuousRead
    \/ Tick
    \/ \E r \in ReadResults : PollRead(r)
    \/ \E t \in timers : ClearTimer(t)
    \/ MockPoll
    \/ MockReadDone

SpecReader == InitReader /\ [][NextReader]_vars

\* the step calls onCardDetected(u) of the RFIDReader
Emits(u) == lastEmit'[u] # lastEmit[u]

\* C3: for any sequence of poll results, a UID read again within the
\* 5-second window that follows its detection does not invoke the callback
\* a second time, and a UID read after that window has elapsed does.
C3_OncePerDebounceWindow ==
    [][\A u \in UIDs :
          PollRead(u) /\ lastEmit[u] # -1 =>
              /\ Emits(u) => now - lastEmit[u] >= Debounce
              /\ now - lastEmit[u] > Debounce => Emits(u)]_vars

C5_ClearedAfterFullWindow ==
    /\ [][lastUid # NULL /\ lastUid' = NULL
             => now = lastEmit[lastUid] + Debounce]_vars
    /\ [](lastUid # NULL => now <= lastEmit[lastUid] + Debounce)

\* C18: at most one read of the reader is in flight: a poll tick does not
\* start a readCard while the readCard of an earlier tick has not completed.
C18_OneReadInFlight ==
    mockInFlight <= 1

-----------------------------------------------------------------------------
(***************************************************************************)
(* The notification channel: the WebSocket server of server.js.  The       *)
(* server's reader is an RFIDReader, whose readCard settles synchronously: *)
(* the interval callback of a connection is one step.                      *)
(***************************************************************************)
Message(type, uid, n) ==
    [type |-> type, uid |-> uid, tap |-> n,
     rfid |-> rfidReader, printer |-> printerService]

\* the cards tapped on the server's reader: a registered and an unknown one
TapCards == {"A1B2C3D4", "ZZZZZZZZ"}

\* a card is put on the reader: one physical tap
PlaceCard(uid) ==
    /\ card = NULL
    /\ tap < MaxTaps
    /\ card' = uid
    /\ tap' = tap + 1
    /\ UNCHANGED <<storeVars, restVars, clientVars, readerVars, printerVars, rfidReader,
                   printerService, conns>>

\* the card is taken off the reader
RemoveCard ==
    /\ card # NULL
    /\ card' = NULL
    /\ UNCHANGED <<storeVars, restVars, clientVars, readerVars, printerVars, rfidReader,
                   printerService, conns, tap>>

\* wss.on('connection') without the handshake
WsConnectionNoHandshake(c) ==
    /\ conns[c].state = "none"
    /\ conns' = [conns EXCEPT ![c] =
                    [state |-> "open",
                     timers |-> IF rfidReader THEN 1 ELSE 0,
                     sent |-> <<>>]]
    /\ UNCHANGED <<storeVars, restVars, clientVars, readerVars, printerVars, rfidReader,
                   printerService, card, tap>>

\* wss.on('connection'): the handshake, then setInterval if there is a reader
WsConnection(c) ==
    /\ conns[c].state = "none"
    /\ conns' = [conns EXCEPT ![c] =
                    [state |-> "open",
                     timers |-> IF rfidReader THEN 1 ELSE 0,
                     sent |-> <<Message("connected", NULL, 0)>>]]
    /\ UNCHANGED <<storeVars, restVars, clientVars, readerVars, printerVars, rfidReader,
                   printerService, card, tap>>

\* what readCard answers: the card's uid, null (no card found), or it throws
CardReads == IF card = NULL THEN {NULL, "error"} ELSE {card, NULL, "error"}

\* the interval callback of connection c, readCard having answered r;
\* ws.send delivers nothing on a socket that is no longer open
WsPoll(c, r) ==
    /\ conns[c].timers > 0
    /\ r \in CardReads
    /\ IF r \in UIDs /\ conns[c].state = "open"
       THEN /\ Len(conns[c].sent) < MaxSent
            /\ conns' = [conns EXCEPT ![c].sent =
                            Append(@, Message("card_detected", r, tap))]
       ELSE UNCHANGED conns
    /\ UNCHANGED <<storeVars, restVars, clientVars, readerVars, printerVars, rfidReader,
                   printerService, card, tap>>

\* the peer starts closing: the socket is closing until its close event
WsClosing(c) ==
    /\ conns[c].state = "open"
    /\ conns' = [conns EXCEPT ![c].state = "closing"]
    /\ UNCHANGED <<storeVars, restVars, clientVars, readerVars, printerVars, rfidReader,
                   printerService, card, tap>>

\* ws.on('close') without clearInterval
WsCloseKeepsTimer(c) ==
    /\ conns[c].state \in {"open", "closing"}
    /\ conns' = [conns EXCEPT ![c].state = "closed"]
    /\ UNCHANGED <<storeVars, restVars, clientVars, readerVars, printerVars, rfidReader,
                   printerService, card, tap>>

\* ws.on('close'): clearInterval(rfidInterval)
WsClose(c) ==
    /\ conns[c].state \in {"open", "closing"}
    /\ conns' = [conns EXCEPT ![c].state = "closed", ![c].timers = 0]
    /\ UNCHANGED <<storeVars, restVars, clientVars, readerVars, printerVars, rfidReader,
                   printerService, card, tap>>

(***************************************************************************)
(* SpecChannel: the server with or without its reader and printer, cards   *)
(* being tapped, connections opening, polling and closing.                 *)
(***************************************************************************)
InitChannel ==
    /\ usersDatabase = DemoUsers
    /\ mockUsers = DemoUsers
    /\ RestIdle
    /\ USE_MOCK_DATA = FALSE
    /\ ClientIdle
    /\ ReaderIdle
    /\ rfidReader \in BOOLEAN
    /\ printerService \in BOOLEAN
    /\ conns = [c \in ConnIds |-> [state |-> "none", timers |-> 0, sent |-> <<>>]]
    /\ card = NULL
    /\ tap = 0
    /\ PrinterIdle

NextChannel ==
    \/ \E uid \in TapCards : PlaceCard(uid)
    \/ RemoveCard
    \/ \E c \in ConnIds : WsConnection(c)
    \/ \E c \in ConnIds, r \in ReadResults : WsPoll(c, r)
    \/ \E c \in ConnIds : WsClosing(c)
    \/ \E c \in ConnIds : WsClose(c)

SpecChannel == InitChannel /\ [][NextChannel]_vars

Detections(c, n) ==
    {i \in 1..Len(conns[c].sent) :
        conns[c].sent[i].type = "card_detected" /\ conns[c].sent[i].tap = n}

\* C2: on a connection, one physical tap produces one card_detected event:
\* a card that stays on the reader over several polls does not produce more
\* than one message for that tap.
C2_OneEventPerTap ==
    \A c \in ConnIds : \A n \in 1..tap : Cardinality(Detections(c, n)) <= 1

\* C6: every connection is sent the connected handshake, with the services
\* that are live, exactly once and before any card_detected message.
C6_HandshakeOnceAndFirst ==
    \A c \in ConnIds :
        conns[c].state # "none" =>
            /\ Len(conns[c].sent) >= 1
            /\ conns[c].sent[1] = Message("connected", NULL, 0)
            /\ \A i \in 2..Len(conns[c].sent) :
                   conns[c].sent[i].type = "card_detected"

\* C6 witness: a connection that was sent two card_detected messages.
C6_Witness ==
    \E c \in ConnIds :
        /\ Len(conns[c].sent) = 3
        /\ conns[c].sent[3].type = "card_detected"

OpenConns == {c \in ConnIds : conns[c].state \in {"open", "closing"}}

LiveTimers ==
    Cardinality(UNION {{c} \X (1..conns[c].timers) : c \in ConnIds})

\* C7: a connection has at most one poll timer, started at open only when
\* the reader is available; the close event stops it: afterwards no poll
\* runs for the connection and nothing is sent to it, and the live poll
\* timers never outnumber the open connections.
C7_CloseStopsPolling ==
    /\ [](\A c \in ConnIds :
            /\ conns[c].timers <= 1
            /\ conns[c].timers > 0 => rfidReader /\ c \in OpenConns)
    /\ [](LiveTimers <= Cardinality(OpenConns))
    /\ [][\A c \in ConnIds :
            conns[c].state = "closed" =>
                /\ conns'[c] = conns[c]
                /\ \A r \in ReadResults : ~WsPoll(c, r)]_vars

\* C7 witness: a connection that was polling and was sent a card_detected
\* message has closed while a card is on the reader.
C7_Witness ==
    \E c \in ConnIds :
        /\ conns[c].state = "closed"
        /\ Len(conns[c].sent) >= 2
        /\ card # NULL
        /\ rfidReader


-----------------------------------------------------------------------------
(***************************************************************************)
(* The receipt printer (printerService.js) and POST /api/print.  A segment *)
(* is one sendCommand: a control command, or a text with its line feed.    *)
(* A text is its literal part, a string argument and a numeric argument    *)
(* (digits; SP is a space, DOT the decimal point).                         *)
(***************************************************************************)
INIT == <<ESC, 64>>
ALIGN_CENTER == <<ESC, 97, 1>>
ALIGN_LEFT == <<ESC, 97, 0>>
BOLD_ON == <<ESC, 69, 1>>
BOLD_OFF == <<ESC, 69, 0>>
FONT_SIZE_NORMAL == <<GS, 33, 0>>
FONT_SIZE_DOUBLE == <<GS, 33, 17>>
FEED_LINE == <<10>>
CUT_PAPER == <<GS, 86, 0>>

SP == -1

DOT == -2

Cmd(bytes) == [kind |-> "cmd", bytes |-> bytes, text |-> "", str |-> "", num |-> <<>>]

Text(t, str, num) ==
    [kind |-> "text", bytes |-> FEED_LINE, text |-> t, str |-> str, num |-> num]

\* balances are in centavos; card numbers as in the README, with and
\* without the spaces between the groups
Balances == {1542050}

CardNumbers ==
    { <<4, 5, 3, 2, 1, 2, 3, 4>>, <<4, 5, 3, 2, SP, 1, 2, 3, 4>> }

Bodies ==
    [name : {"Juan Dela Cruz"}, accountType : {"Savings"}, balance : Balances,
     cardNumber : CardNumbers, missing : SUBSET Fields]

\* the instants at which a request can arrive, in minutes of the day
Timestamps == {599, 600}

\* Date.prototype.toISOString: the hour and the minute of the instant
ToISOString(t) == <<t \div 60, t % 60>>

\* new Date(iso): the instant of an ISO string
DateOf(iso) == iso[1] * 60 + iso[2]

\* Date.prototype.toLocaleString, in the locale and the time zone of the
\* server process: hour, space, minute
ToLocaleString(d) == <<d \div 60, SP, d % 60>>

\* the argument of printReceipt: the four fields of req.body and the
\* timestamp of the handler
ReceiptData(body, t) ==
    [name |-> body.name, accountType |-> body.accountType,
     balance |-> body.balance, cardNumber |-> body.cardNumber,
     missing |-> body.missing, timestamp |-> ToISOString(t)]

\* `${x}` of a string field
Str(data, f) == IF f \in data.missing THEN "undefined" ELSE data[f]

\* Number.prototype.toFixed(2) of an amount in centavos
ToFixed2(b) == <<b \div 100, DOT, b % 100>>

IsDigit(d) == d \in 0..9

\* String.prototype.replace(/(\d{4})/g, '$1 ')
RECURSIVE GroupDigits(_)
GroupDigits(s) ==
    IF s = <<>> THEN <<>>
    ELSE IF Len(s) >= 4 /\ \A i \in 1..4 : IsDigit(s[i])
    THEN SubSeq(s, 1, 4) \o <<SP>> \o GroupDigits(SubSeq(s, 5, Len(s)))
    ELSE <<Head(s)>> \o GroupDigits(Tail(s))

\* String.prototype.trim
RECURSIVE Trim(_)
Trim(s) ==
    IF s = <<>> THEN <<>>
    ELSE IF Head(s) = SP THEN Trim(Tail(s))
    ELSE IF s[Len(s)] = SP THEN Trim(SubSeq(s, 1, Len(s) - 1))
    ELSE s

Line(seg, bold, center, doubleSize, throws) ==
    [seg |-> seg, bold |-> bold, center |-> center, doubleSize |-> doubleSize,
     throws |-> throws]

Plain(t) == Text(t, "", <<>>)

\* the printText calls of printReceipt, in order; throws: evaluating the
\* call's argument throws a TypeError (a method of undefined)
ReceiptLines(data) ==
    << Line(Plain("================================"), FALSE, TRUE, FALSE, FALSE),
       Line(Plain("MINI ATM RECEIPT"), TRUE, TRUE, TRUE, FALSE),
       Line(Plain("================================"), FALSE, TRUE, FALSE, FALSE),
       Line(Plain(""), FALSE, FALSE, FALSE, FALSE),
       Line(Text("Name: ", Str(data, "name"), <<>>), TRUE, FALSE, FALSE, FALSE),
       Line(Text("Account: ", Str(data, "accountType"), <<>>),
            FALSE, FALSE, FALSE, FALSE),
       Line(Text("Card: ", "", Trim(GroupDigits(data.cardNumber))),
            FALSE, FALSE, FALSE, "cardNumber" \in data.missing),
       Line(Plain(""), FALSE, FALSE, FALSE, FALSE),
       Line(Plain("--------------------------------"), FALSE, TRUE, FALSE, FALSE),
       Line(Plain("AVAILABLE BALANCE"), TRUE, TRUE, FALSE, FALSE),
       Line(Text("PHP ", "", ToFixed2(data.balance)),
            FALSE, TRUE, TRUE, "balance" \in data.missing),
       Line(Plain("--------------------------------"), FALSE, TRUE, FALSE, FALSE),
       Line(Plain(""), FALSE, FALSE, FALSE, FALSE),
       Line(Text("Date: ", "", ToLocaleString(DateOf(data.timestamp))),
            FALSE, TRUE, FALSE, FALSE),
       Line(Plain(""), FALSE, FALSE, FALSE, FALSE),
       Line(Plain("Thank you for using Mini ATM"), FALSE, TRUE, FALSE, FALSE),
       Line(Plain("Raspberry Pi 4B Simulator"), FALSE, TRUE, FALSE, FALSE),
       Line(Plain("================================"), FALSE, TRUE, FALSE, FALSE),
       Line(Plain(""), FALSE, FALSE, FALSE, FALSE),
       Line(Plain(""), FALSE, FALSE, FALSE, FALSE),
       Line(Plain(""), FALSE, FALSE, FALSE, FALSE) >>

\* printText that leaves the font size alone
PrintTextNoDouble(l) ==
    (IF l.center THEN <<Cmd(ALIGN_CENTER)>> ELSE <<>>)
    \o (IF l.bold THEN <<Cmd(BOLD_ON)>> ELSE <<>>)
    \o <<l.seg>>
    \o (IF l.bold THEN <<Cmd(BOLD_OFF)>> ELSE <<>>)
    \o (IF l.center THEN <<Cmd(ALIGN_LEFT)>> ELSE <<>>)

\* printText that leaves bold on
PrintTextKeepsBold(l) ==
    (IF l.center THEN <<Cmd(ALIGN_CENTER)>> ELSE <<>>)
    \o (IF l.bold THEN <<Cmd(BOLD_ON)>> ELSE <<>>)
    \o (IF l.doubleSize THEN <<Cmd(FONT_SIZE_DOUBLE)>> ELSE <<>>)
    \o <<l.seg>>
    \o (IF l.doubleSize THEN <<Cmd(FONT_SIZE_NORMAL)>> ELSE <<>>)
    \o (IF l.center THEN <<Cmd(ALIGN_LEFT)>> ELSE <<>>)

\* printText: the segments of one call
PrintText(l) ==
    (IF l.center THEN <<Cmd(ALIGN_CENTER)>> ELSE <<>>)
    \o (IF l.bold THEN <<Cmd(BOLD_ON)>> ELSE <<>>)
    \o (IF l.doubleSize THEN <<Cmd(FONT_SIZE_DOUBLE)>> ELSE <<>>)
    \o <<l.seg>>
    \o (IF l.bold THEN <<Cmd(BOLD_OFF)>> ELSE <<>>)
    \o (IF l.doubleSize THEN <<Cmd(FONT_SIZE_NORMAL)>> ELSE <<>>)
    \o (IF l.center THEN <<Cmd(ALIGN_LEFT)>> ELSE <<>>)

\* printReceipt throws while it formats
Throws(data) ==
    LET lines == ReceiptLines(data)
    IN  \E i \in 1..Len(lines) : lines[i].throws

RECURSIVE LinesFrom(_, _)
LinesFrom(lines, i) ==
    IF i > Len(lines) THEN <<>>
    ELSE LET l == lines[i]
         IN  IF l.throws THEN <<>>
             ELSE PrintText(l) \o LinesFrom(lines, i + 1)

\* printReceipt without the final cut
ReceiptSegmentsNoCut(data) ==
    LET lines == ReceiptLines(data)
    IN  <<Cmd(INIT)>> \o LinesFrom(lines, 1)

\* printReceipt: the segments it sends when every write succeeds, up to the
\* point where it throws
ReceiptSegments(data) ==
    LET lines == ReceiptLines(data)
    IN  <<Cmd(INIT)>>
        \o LinesFrom(lines, 1)
        \o (IF Throws(data) THEN <<>> ELSE <<Cmd(CUT_PAPER)>>)

\* port.on('open'): isConnected, and INIT is sent outside any receipt
PortOpen ==
    /\ printerService
    /\ port.state = "opening"
    /\ printerConnected' = TRUE
    /\ port' = [port EXCEPT !.state = "open", !.out = <<Cmd(INIT)>>]
    /\ UNCHANGED <<storeVars, restVars, clientVars, readerVars, channelVars,
                   runs, written>>

\* port.on('error')
PortError ==
    /\ printerService
    /\ port.state = "opening" \/ printerConnected
    /\ printerConnected' = FALSE
    /\ port' = IF port.state = "opening" THEN [port EXCEPT !.state = "failed"] ELSE port
    /\ UNCHANGED <<storeVars, restVars, clientVars, readerVars, channelVars,
                   runs, written>>

\* printReceipt taking the date of request "a" from elsewhere than its data
RunSegmentsOwnDate(r, body, t) ==
    ReceiptSegments(ReceiptData(body, IF r = "a" THEN 0 ELSE t))

\* the segments of the printReceipt of request r: the data of the call are
\* constants of the run
RunSegments(r, body, t) == ReceiptSegments(ReceiptData(body, t))

\* POST /api/print without its mock branch
PostPrintNoMock(r, body, t) ==
    /\ runs[r].status = "idle"
    /\ written' = [written EXCEPT ![r] = <<>>]
    /\ runs' = [runs EXCEPT ![r] =
                  [NoRun EXCEPT !.body = body, !.timestamp = t,
                                !.plan = ReceiptSegments(ReceiptData(body, t)),
                                !.status = "running"]]
    /\ UNCHANGED <<storeVars, restVars, clientVars, readerVars, channelVars,
                   printerConnected, port>>

\* POST /api/print, request r arriving at instant t: the mock answer
\* without a printer, else printReceipt up to its first sendCommand
PostPrint(r, body, t) ==
    /\ runs[r].status = "idle"
    /\ written' = [written EXCEPT ![r] = <<>>]
    /\ runs' = [runs EXCEPT ![r] =
                  IF ~printerService
                  THEN [NoRun EXCEPT !.body = body, !.status = "mocked",
                                     !.answer = PrintAnswer("mock", body)]
                  ELSE [NoRun EXCEPT !.body = body, !.timestamp = t,
                                     !.plan = RunSegments(r, body, t),
                                     !.status = "running"]]
    /\ UNCHANGED <<storeVars, restVars, clientVars, readerVars, channelVars,
                   printerConnected, port>>

\* the state of a run after its next sendCommand has settled: sendCommand
\* throws without a write when the port is not connected, the write fails,
\* or the segment is written and printReceipt goes on to its next
\* sendCommand, to the TypeError of a missing field, or to its end
AfterWrite(r, ok) ==
    LET segs == runs[r].plan
        n == Len(written[r]) + 1
        data == ReceiptData(runs[r].body, runs[r].timestamp)
    IN
    IF ~printerConnected
    THEN [status |-> "failed", answer |-> "error", written |-> written[r],
          cause |-> "port", attempts |-> runs[r].attempts]
    ELSE IF ~ok
    THEN [status |-> "failed", answer |-> "error", written |-> written[r],
          cause |-> "write", attempts |-> runs[r].attempts + 1]
    ELSE IF n < Len(segs)
    THEN [status |-> "running", answer |-> "none",
          written |-> Append(written[r], segs[n]),
          cause |-> "none", attempts |-> runs[r].attempts + 1]
    ELSE IF Throws(data)
    THEN [status |-> "failed", answer |-> "error",
          written |-> Append(written[r], segs[n]),
          cause |-> "format", attempts |-> runs[r].attempts + 1]
    ELSE [status |-> "done", answer |-> "printed",
          written |-> Append(written[r], segs[n]),
          cause |-> "none", attempts |-> runs[r].attempts + 1]

\* a sendCommand whose failed write is tried again
PrintWriteRetries(r, ok) ==
    /\ runs[r].status = "running"
    /\ runs[r].attempts < Len(written[r]) + 2
    /\ runs' = [runs EXCEPT ![r].attempts = @ + 1]
    /\ UNCHANGED <<storeVars, restVars, clientVars, readerVars, channelVars,
                   printerConnected, port, written>>

\* one sendCommand of a running printReceipt: the write succeeds or fails;
\* after the last one the handler answers (500 when printReceipt threw)
PrintWrite(r, ok) ==
    /\ runs[r].status = "running"
    /\ \E after \in {AfterWrite(r, ok)} :
       LET wrote == after.written # written[r]
       IN  /\ runs' = [runs EXCEPT
                         ![r].status = after.status,
                         ![r].answer = PrintAnswer(after.answer, runs[r].body),
                         ![r].cause = after.cause,
                         ![r].attempts = after.attempts,
                         ![r].split = @ \/ (/\ wrote
                                            /\ written[r] # <<>>
                                            /\ port.writer # r)]
           /\ written' = [written EXCEPT ![r] = after.written]
           /\ port' = IF wrote THEN [port EXCEPT !.writer = r] ELSE port
    /\ UNCHANGED <<storeVars, restVars, clientVars, readerVars, channelVars,
                   printerConnected>>

(***************************************************************************)
(* SpecPrinter: print requests, one at a time, over every partial body,    *)
(* with the port opening and failing and any write failing.                *)
(***************************************************************************)
InitPrinter ==
    /\ usersDatabase = DemoUsers
    /\ mockUsers = DemoUsers
    /\ RestIdle
    /\ USE_MOCK_DATA = FALSE
    /\ ClientIdle
    /\ ReaderIdle
    /\ rfidReader = FALSE
    /\ printerService \in BOOLEAN
    /\ conns = [c \in ConnIds |-> [state |-> "none", timers |-> 0, sent |-> <<>>]]
    /\ card = NULL
    /\ tap = 0
    /\ PrinterIdle

NextPrinter ==
    \/ PortOpen
    \/ PortError
    \/ \E body \in Bodies, t \in Timestamps : PostPrint("a", body, t)
    \/ \E ok \in BOOLEAN : PrintWrite("a", ok)

SpecPrinter == InitPrinter /\ [][NextPrinter]_vars

CutsIn(log) == {i \in 1..Len(log) : log[i] = Cmd(CUT_PAPER)}

\* C10: a printReceipt run that completes without error has written the
\* paper-cut command exactly once, as its last segment.
C10_CutIsLastAndOnce ==
    \A r \in Requests :
        runs[r].status = "done" =>
            /\ written[r] # <<>>
            /\ CutsIn(written[r]) = {Len(written[r])}

\* C10 witness: a receipt of a complete body was printed to the end.
C10_Witness ==
    /\ runs["a"].status = "done"
    /\ runs["a"].body.missing = {}
    /\ Len(written["a"]) > 40

\* where a text with the literal part t is in a log
TextAt(log, t) ==
    {i \in 1..Len(log) : log[i].kind = "text" /\ log[i].text = t}

\* the command on is in force at position i of a log: it was written
\* before i and neither its counterpart off nor INIT since
InForce(log, i, on, off) ==
    \E j \in 1..(i - 1) :
        /\ log[j] = Cmd(on)
        /\ \A k \in (j + 1)..(i - 1) : log[k] # Cmd(off) /\ log[k] # Cmd(INIT)

\* one text of each block, in the order of the blocks: header, account
\* block (name, account type, card), balance block, footer
BlockTexts ==
    << "MINI ATM RECEIPT", "Name: ", "Account: ", "Card: ",
       "AVAILABLE BALANCE", "PHP ", "Date: ", "Thank you for using Mini ATM" >>

InBlockOrder(log) ==
    /\ log # <<>> => log[1] = Cmd(INIT)
    /\ \A i \in 2..Len(log) : log[i] # Cmd(INIT)
    /\ \A k \in 1..Len(BlockTexts) :
           Cardinality(TextAt(log, BlockTexts[k])) <= 1
    /\ \A k \in 2..Len(BlockTexts) :
           \A i \in TextAt(log, BlockTexts[k]) :
               \E j \in TextAt(log, BlockTexts[k - 1]) : j < i
    /\ \A c \in CutsIn(log) :
           /\ TextAt(log, BlockTexts[Len(BlockTexts)]) # {}
           /\ \A i \in 1..Len(log) : log[i].kind = "text" => i < c
    /\ \A i \in TextAt(log, "AVAILABLE BALANCE") :
           /\ InForce(log, i, ALIGN_CENTER, ALIGN_LEFT)
           /\ ~InForce(log, i, FONT_SIZE_DOUBLE, FONT_SIZE_NORMAL)
    /\ \A i \in TextAt(log, "PHP ") :
           /\ InForce(log, i, ALIGN_CENTER, ALIGN_LEFT)
           /\ InForce(log, i, FONT_SIZE_DOUBLE, FONT_SIZE_NORMAL)

\* C12: what a printReceipt has written so far is always in the fixed
\* order: initialise, header, account block (name, account type, card),
\* balance block (centered, the amount in double-size font), footer, paper
\* cut; nothing of a later block precedes anything of an earlier block, and
\* a completed receipt has every block.
C12_FixedBlockOrder ==
    \A r \in Requests :
        /\ InBlockOrder(written[r])
        /\ runs[r].status = "done" =>
               \A k \in 1..Len(BlockTexts) :
                   TextAt(written[r], BlockTexts[k]) # {}

\* C12 witness: a run has written its balance amount and is in its footer.
C12_Witness ==
    /\ runs["a"].status = "running"
    /\ TextAt(written["a"], "PHP ") # {}
    /\ TextAt(written["a"], "Date: ") # {}
    /\ CutsIn(written["a"]) = {}

\* C13: a failed serial write aborts the rest of the receipt: the run has
\* failed with exactly one write attempt beyond its written segments, it
\* has written no paper cut, the request is answered 500, what it wrote is
\* the beginning of its sequence with nothing sent twice, and a failed run
\* writes nothing more.
C13_WriteFailureAborts ==
    /\ [](\A r \in Requests :
            /\ runs[r].attempts <= Len(written[r]) + 1
            /\ Len(written[r]) <= Len(runs[r].plan)
            /\ written[r] = SubSeq(runs[r].plan, 1, Len(written[r]))
            /\ runs[r].cause \in {"write", "port"} =>
                   /\ runs[r].status = "failed"
                   /\ runs[r].answer.code = 500
                   /\ CutsIn(written[r]) = {}
            /\ runs[r].cause = "write" =>
                   runs[r].attempts = Len(written[r]) + 1)
    /\ [][\A r \in Requests :
             runs[r].status = "failed" =>
                 written'[r] = written[r] /\ runs'[r] = runs[r]]_vars

\* C13 witness: a write failed in the middle of a receipt.
C13_Witness ==
    /\ runs["a"].status = "failed"
    /\ runs["a"].cause = "write"
    /\ Len(written["a"]) > 10
    /\ runs["a"].body.missing = {}

\* C14: whatever fields the body has, a printReceipt fails only because a
\* serial write failed (or the port is not connected): no run fails on a
\* missing field, leaving a receipt partially printed.
C14_OnlyWriteFailuresFail ==
    \A r \in Requests :
        runs[r].status = "failed" => runs[r].cause \in {"write", "port"}

-----------------------------------------------------------------------------
(***************************************************************************)
(* SpecPrintPair: two POST /api/print requests of one complete account     *)
(* record served by one printer service whose writes succeed, their        *)
(* printReceipt runs interleaving at every await.                          *)
(***************************************************************************)
CompleteBodies ==
    {b \in Bodies : b.missing = {} /\ \A i \in 1..Len(b.cardNumber) : IsDigit(b.cardNumber[i])}

InitPrintPair ==
    /\ usersDatabase = DemoUsers
    /\ mockUsers = DemoUsers
    /\ RestIdle
    /\ USE_MOCK_DATA = FALSE
    /\ ClientIdle
    /\ ReaderIdle
    /\ rfidReader = FALSE
    /\ printerService = TRUE
    /\ conns = [c \in ConnIds |-> [state |-> "none", timers |-> 0, sent |-> <<>>]]
    /\ card = NULL
    /\ tap = 0
    /\ PrinterIdle

NextPrintPair ==
    \/ PortOpen
    \/ \E r \in Requests, body \in CompleteBodies, t \in Timestamps :
           PostPrint(r, body, t)
    \/ \E r \in Requests : PrintWrite(r, TRUE)

SpecPrintPair == InitPrintPair /\ [][NextPrintPair]_vars

C19_NoInterleaving ==
    \A r \in Requests : ~runs[r].split

-----------------------------------------------------------------------------
(***************************************************************************)
(* The other REST endpoints of server.js: GET /api/health and POST         *)
(* /api/rfid/scan.  The server's reader is an RFIDReader: its readCard has *)
(* settled when the handler resumes, so each handler is one step.          *)
(***************************************************************************)
\* GET /api/health (its timestamp left out)
GetHealth ==
    /\ health' = [status |-> 200, rfid |-> rfidReader, printer |-> printerService]
    /\ UNCHANGED <<storeVars, res, scanRes, clientVars, readerVars, channelVars,
                   printerVars>>

\* POST /api/rfid/scan reading again after a failed read
ScanResponseRetries(r, t) ==
    IF ~rfidReader
    THEN [status |-> 503, uid |-> NULL, timestamp |-> <<>>,
          error |-> "RFID reader not available", reads |-> 0]
    ELSE IF r = "error"
    THEN [status |-> 500, uid |-> NULL, timestamp |-> <<>>,
          error |-> "Scan failed", reads |-> 2]
    ELSE [status |-> 200, uid |-> r, timestamp |-> ToISOString(t),
          error |-> NULL, reads |-> 1]

\* the answer of POST /api/rfid/scan at instant t, readCard answering r
ScanResponse(r, t) ==
    IF ~rfidReader
    THEN [status |-> 503, uid |-> NULL, timestamp |-> <<>>,
          error |-> "RFID reader not available", reads |-> 0]
    ELSE IF r = "error"
    THEN [status |-> 500, uid |-> NULL, timestamp |-> <<>>,
          error |-> "Scan failed", reads |-> 1]
    ELSE [status |-> 200, uid |-> r, timestamp |-> ToISOString(t),
          error |-> NULL, reads |-> 1]

\* POST /api/rfid/scan
PostScan(r, t) ==
    /\ r \in (IF rfidReader THEN CardReads ELSE {NULL})
    /\ scanRes' = ScanResponse(r, t)
    /\ UNCHANGED <<storeVars, res, health, clientVars, readerVars, channelVars,
                   printerVars>>

(***************************************************************************)
(* SpecRest: a server started with or without its reader and its printer   *)
(* service, the printer's port opening or failing to open, health and scan *)
(* requests, cards being tapped and a client connecting.                   *)
(***************************************************************************)
InitRest ==
    /\ usersDatabase = DemoUsers
    /\ mockUsers = DemoUsers
    /\ RestIdle
    /\ USE_MOCK_DATA = FALSE
    /\ ClientIdle
    /\ ReaderIdle
    /\ rfidReader \in BOOLEAN
    /\ printerService \in BOOLEAN
    /\ conns = [c \in ConnIds |-> [state |-> "none", timers |-> 0, sent |-> <<>>]]
    /\ card = NULL
    /\ tap = 0
    /\ PrinterIdle

NextRest ==
    \/ GetHealth
    \/ \E r \in ReadResults, t \in Timestamps : PostScan(r, t)
    \/ \E uid \in TapCards : PlaceCard(uid)
    \/ RemoveCard
    \/ PortOpen
    \/ PortError
    \/ WsConnection(1)
    \/ WsClose(1)

SpecRest == InitRest /\ [][NextRest]_vars

\* the printer could not be reached at start-up: there is no printer
\* service, or its port failed to open
PrinterUnreachable == ~printerService \/ port.state = "failed"

\* C16: hardware that cannot be reached at start-up is flagged false: the
\* health answer and the socket handshake given after the reader or the
\* printer turned out unreachable carry rfid / printer false (the server
\* keeps answering in every such state).
C16_AbsentHardwareFlaggedFalse ==
    /\ [][GetHealth =>
             /\ ~rfidReader => ~health'.rfid
             /\ PrinterUnreachable => ~health'.printer]_vars
    /\ [][\A c \in ConnIds :
             WsConnection(c) =>
                 /\ ~rfidReader => ~conns'[c].sent[1].rfid
                 /\ PrinterUnreachable => ~conns'[c].sent[1].printer]_vars

\* C17: POST /api/rfid/scan answers 503 without a read when there is no
\* reader, 500 when its read failed, and otherwise 200 with the uid read
\* and a timestamp; a request makes exactly one read, failed or not.
C17_ScanAnswers ==
    /\ [](/\ scanRes.status \in {0, 200, 500, 503}
          /\ scanRes.status # 0 => (scanRes.status = 503 <=> ~rfidReader)
          /\ scanRes.status = 503 => scanRes.reads = 0
          /\ scanRes.status = 500 => scanRes.reads = 1 /\ scanRes.uid = NULL
          /\ scanRes.status = 200 =>
                 /\ scanRes.reads = 1
                 /\ scanRes.uid \in UIDs \cup {NULL}
                 /\ scanRes.timestamp # <<>>
                 /\ scanRes.error = NULL)
    /\ [][\A r \in ReadResults, t \in Timestamps :
             PostScan(r, t) /\ rfidReader =>
                 /\ r = "error" => scanRes'.status = 500
                 /\ r # "error" => scanRes'.status = 200 /\ scanRes'.uid = r]_vars

\* C17 witness: a scan with a reader whose read failed was answered 500.
C17_Witness ==
    /\ rfidReader
    /\ card # NULL
    /\ scanRes.status = 500
    /\ scanRes.reads = 1

(***************************************************************************)
(* SpecServer: every operation of the server on a loaded store: lookups,   *)
(* manual scans, a print request, a socket connection with its polls, and  *)
(* cards being tapped.                                                     *)
(***************************************************************************)
InitServer ==
    /\ usersDatabase = DemoUsers
    /\ mockUsers = DemoUsers
    /\ RestIdle
    /\ USE_MOCK_DATA = FALSE
    /\ ClientIdle
    /\ ReaderIdle
    /\ rfidReader = TRUE
    /\ printerService = TRUE
    /\ conns = [c \in ConnIds |-> [state |-> "none", timers |-> 0, sent |-> <<>>]]
    /\ card = NULL
    /\ tap = 0
    /\ PrinterIdle

\* the instant of the requests, the clock not mattering to the store
FirstInstant == CHOOSE t \in Timestamps : \A u \in Timestamps : t <= u

NextServer ==
    \/ \E uid \in TapCards : GetUser(uid)
    \/ \E r \in ReadResults : PostScan(r, FirstInstant)
    \/ \E body \in CompleteBodies : PostPrint("a", body, FirstInstant)
    \/ PrintWrite("a", TRUE)
    \/ PortOpen
    \/ \E uid \in TapCards : PlaceCard(uid)
    \/ RemoveCard
    \/ WsConnection(1)
    \/ \E r \in ReadResults : WsPoll(1, r)
    \/ WsClose(1)

SpecServer == InitServer /\ [][NextServer]_vars

\* C20: the user store is read-only at runtime: no lookup, manual scan,
\* print request, socket connection, poll or card detection changes it.
C20_StoreReadOnly ==
    [][usersDatabase' = usersDatabase]_vars

\* C20 witness: a lookup, a scan, a print and a card detection have all
\* been served.
C20_Witness ==
    /\ res.status = 200
    /\ scanRes.status = 200
    /\ scanRes.uid # NULL
    /\ runs["a"].status = "done"
    /\ Len(conns[1].sent) >= 2
    /\ usersDatabase = DemoUsers

-----------------------------------------------------------------------------
(***************************************************************************)
(* SpecLookup: the lookup over every store, on the server (GET             *)
(* /api/user/:uid) and in the client's mock mode (fetchUserData).          *)
(***************************************************************************)
InitLookup ==
    /\ usersDatabase \in Stores
    /\ mockUsers = usersDatabase   \* the two files list the same demo users
    /\ RestIdle
    /\ USE_MOCK_DATA = TRUE
    /\ ClientIdle
    /\ ReaderIdle
    /\ ChannelIdle
    /\ PrinterIdle

NextLookup ==
    \/ Mount
    \/ \E uid \in UIDs : GetUser(uid)
    \/ \E uid \in UIDs : FetchUserData(uid)
    \/ \E uid \in UIDs, fetched \in BOOLEAN : FetchUserDataDone("call", uid, fetched)

SpecLookup == InitLookup /\ [][NextLookup]_vars

\* C1: a lookup answers with the store record whose uid is the requested
\* one when the store holds one, and with not-found otherwise (404 and
\* 'User not found' on the server, no session and 'Card not recognized' in
\* the client's mock mode); it never answers with a record of another uid.
C1_LookupExact ==
    [][/\ \A uid \in UIDs :
            GetUser(uid) =>
                LET hits == {i \in 1..Len(usersDatabase) : usersDatabase[i].uid = uid}
                IN  IF hits = {}
                    THEN /\ res'.status = 404
                         /\ res'.error = "User not found"
                         /\ res'.body = NoUser
                    ELSE /\ res'.status = 200
                         /\ res'.body.uid = uid
                         /\ \E i \in hits : res'.body = usersDatabase[i]
       /\ \A uid \in UIDs :
            FetchUserDataDone("call", uid, TRUE) =>
                LET hits == {i \in 1..Len(mockUsers) : mockUsers[i].uid = uid}
                IN  IF hits = {}
                    THEN /\ currentUser' = NoUser
                         /\ error' = ErrNotRecognized
                    ELSE /\ currentUser'.uid = uid
                         /\ \E i \in hits : currentUser' = mockUsers[i]
                         /\ error' = NULL]_vars

\* C1 witness: a store holding two records, the server has answered a
\* request for the second one and the mock client has looked up a known card.
C1_Witness ==
    /\ Len(usersDatabase) = 2
    /\ res.status = 200
    /\ res.uid = usersDatabase[2].uid
    /\ currentUser # NoUser

-----------------------------------------------------------------------------
(***************************************************************************)
(* SpecClient: the hook in either mode, over the demo users.  The page     *)
(* (Index.tsx) never calls connect or disconnect itself: they run as the   *)
(* effect and its cleanup.                                                 *)
(***************************************************************************)
InitClient ==
    /\ usersDatabase = DemoUsers
    /\ mockUsers = DemoUsers
    /\ RestIdle
    /\ USE_MOCK_DATA \in BOOLEAN
    /\ ClientIdle
    /\ ReaderIdle
    /\ ChannelIdle
    /\ PrinterIdle

NextClient ==
    \/ Mount
    \/ EffectRerun
    \/ Unmount
    \/ \E s \in SockIds : OnOpen(s)
    \/ \E s \in SockIds : OnError(s)
    \/ \E s \in SockIds : OnClose(s)
    \/ \E s \in SockIds, uid \in UIDs : OnMessage(s, uid)
    \/ ScanCard
    \/ \E uid \in LookupUIDs : ScanCardFetch(uid)
    \/ ScanCardFail
    \/ \E caller \in Callers, uid \in LookupUIDs, fetched \in BOOLEAN :
            FetchUserDataDone(caller, uid, fetched)
    \/ Logout

SpecClient == InitClient /\ [][NextClient]_vars

\* C8: in hardware mode a mounted client has at most one WebSocket open or
\* connecting at any time, and once it has created a socket it does not
\* create another one while it stays mounted.
C8_SinglePersistentSocket ==
    /\ [](~USE_MOCK_DATA /\ mounted = "yes"
            => Cardinality({s \in SockIds : Live(s)}) <= 1)
    /\ [][~USE_MOCK_DATA /\ mounted = "yes" /\ mounted' = "yes"
            => \A s \in SockIds :
                  sockets[s] = "unused" /\ sockets'[s] # "unused"
                      => \A t \in SockIds : sockets[t] = "unused"]_vars

\* C9: the session becomes non-null only by a lookup that succeeded, and it
\* is null after logout(), after disconnect() (the effect's cleanup) and
\* after the client's socket has closed or failed (onclose, onerror).
C9_SessionEndsOnDisconnect ==
    /\ [][currentUser = NoUser /\ currentUser' # NoUser
            => \E caller \in Callers, uid \in UIDs :
                   FetchUserDataDone(caller, uid, TRUE)]_vars
    /\ [][mounted = "yes" /\ (Logout \/ EffectRerun \/ Unmount)
            => currentUser' = NoUser]_vars
    /\ [][mounted = "yes" /\ ws # 0 /\ (OnClose(ws) \/ OnError(ws))
            => currentUser' = NoUser]_vars

\* C31: in hardware mode isConnected is true exactly when the client has
\* an open WebSocket: never false while a socket it created is open, never
\* true while none is open.
C31_ConnectedIffOpenSocket ==
    (~USE_MOCK_DATA /\ mounted = "yes") =>
        (isConnected <=> \E s \in SockIds : sockets[s] = "open")

-----------------------------------------------------------------------------
(***************************************************************************)
(* SpecPage: the page and its hook in either mode, over the demo users:    *)
(* the card taps pushed by the backend, the scan and demo-login buttons,   *)
(* the print button (handlePrint) and logout.                              *)
(***************************************************************************)
InitPage ==
    /\ usersDatabase = DemoUsers
    /\ mockUsers = DemoUsers
    /\ RestIdle
    /\ USE_MOCK_DATA \in BOOLEAN
    /\ ClientIdle
    /\ ReaderIdle
    /\ ChannelIdle
    /\ PrinterIdle

\* the steps that settle something awaited
Settle ==
    \/ \E uid \in LookupUIDs : ScanCardFetch(uid)
    \/ ScanCardFail
    \/ DemoLoginFetch
    \/ DemoLoginFail
    \/ \E caller \in Callers, uid \in LookupUIDs, fetched \in BOOLEAN :
            FetchUserDataDone(caller, uid, fetched)
    \/ \E ok \in BOOLEAN : PrintReceiptDone(ok)

NextPage ==
    \/ Mount
    \/ Unmount
    \/ \E s \in SockIds : OnOpen(s)
    \/ \E s \in SockIds, uid \in UIDs : OnMessage(s, uid)
    \/ ScanCard
    \/ DemoLogin
    \/ PrintReceipt
    \/ Logout
    \/ Settle

SpecPage == InitPage /\ [][NextPage]_vars


\* C21: in demo (mock) mode connect, scanCard, the lookup and printReceipt
\* complete without the backend: no WebSocket is created and no request is
\* sent to any /api endpoint.
C21_DemoModeNeedsNoBackend ==
    USE_MOCK_DATA =>
        /\ apiCalls = {}
        /\ \A s \in SockIds : sockets[s] = "unused"

\* C21 witness: in mock mode the client is connected, a scan has loaded a
\* session and its receipt has been printed.
C21_Witness ==
    /\ USE_MOCK_DATA
    /\ isConnected
    /\ latest.outcome = "ok"
    /\ currentUser # NoUser
    /\ printCall.state = "done"
    /\ printCall.ok
    /\ InFlight = 0

\* C22: after logout the session stays ended until a card tap or a scan is
\* initiated after that logout; a lookup already in flight at the logout
\* does not re-create the session.
C22_LogoutHolds ==
    latest.outcome = "loggedout" => currentUser = NoUser

\* C23: once the lookups of two detected cards have both completed, the
\* session holds the record of the card detected last, whatever the order
\* of the responses.
C23_LatestCardWins ==
    (latest.outcome = "ok" /\ InFlight = 0 /\ currentUser # NoUser)
        => currentUser.uid = latest.uid

\* C24: a completed lookup leaves either the record of the requested uid
\* and no error, or no session and an error; a failed lookup ends an
\* existing session.
C24_LookupOutcome ==
    [][\A caller \in Callers, uid \in LookupUIDs, fetched \in BOOLEAN :
          (mounted = "yes" /\ FetchUserDataDone(caller, uid, fetched)) =>
              \/ /\ currentUser' # NoUser
                 /\ currentUser'.uid = uid
                 /\ error' = NULL
              \/ /\ currentUser' = NoUser
                 /\ error' # NULL]_vars

\* C24 witness: the lookup of an unknown card has failed and left no
\* session and the lookup error.
C24_Witness ==
    /\ mounted = "yes"
    /\ latest.outcome = "failed"
    /\ currentUser = NoUser
    /\ error \in {ErrLoad, ErrNotRecognized}

\* C26: printReceipt without a session sets 'No active session' and sends
\* no print request; with or without a session printReceipt never changes
\* currentUser.
C26_PrintNeedsSession ==
    [][/\ (PrintReceipt /\ currentUser = NoUser) =>
              /\ error' = ErrNoSession
              /\ apiCalls' = apiCalls
              /\ printCall'.state = "done"
       /\ (PrintReceipt \/ \E ok \in BOOLEAN : PrintReceiptDone(ok)) =>
              currentUser' = currentUser]_vars

\* C26 witness: in hardware mode printReceipt was called without a session
\* and no print request has ever been sent.
C26_Witness ==
    /\ ~USE_MOCK_DATA
    /\ currentUser = NoUser
    /\ error = ErrNoSession
    /\ printCall.state = "done"
    /\ "/api/print" \notin apiCalls

\* C27: the page shows 'Receipt Printed' only when the print succeeded.
C27_ToastOnlyOnSuccess ==
    printCall.toast => printCall.ok

-----------------------------------------------------------------------------
(***************************************************************************)
(* SpecScan: the scan and demo-login buttons of a page in either mode,     *)
(* with every awaited request completing.                                  *)
(***************************************************************************)
ScanSettles ==
    \/ \E uid \in LookupUIDs : ScanCardFetch(uid)
    \/ ScanCardFail

DemoSettles ==
    \/ DemoLoginFetch
    \/ DemoLoginFail

LookupSettles ==
    \E uid \in LookupUIDs, fetched \in BOOLEAN :
        FetchUserDataDone("scan", uid, fetched)

NextScan ==
    \/ Mount
    \/ Unmount
    \/ ScanCard
    \/ DemoLogin
    \/ Logout
    \/ ScanSettles
    \/ DemoSettles
    \/ LookupSettles

SpecScan ==
    /\ InitPage
    /\ [][NextScan]_vars
    /\ WF_vars(ScanSettles)
    /\ WF_vars(DemoSettles)
    /\ WF_vars(LookupSettles)

\* a scanCard or demoLogin call is in progress
ScanInProgress ==
    scanning + demoing
        + Cardinality({uid \in LookupUIDs : pending[<<"scan", uid>>] > 0}) > 0

\* C25: isScanning is true only while a scanCard or demoLogin call is in
\* progress, and every such call eventually resets it to false, whether it
\* succeeds, fails or throws.
C25_ScanningFlag ==
    /\ []((mounted = "yes" /\ isScanning) => ScanInProgress)
    /\ (mounted = "yes" /\ isScanning) ~> (mounted # "yes" \/ ~isScanning)

\* C25 witness: a scan that threw has left the flag reset and its error.
C25_Witness ==
    /\ mounted = "yes"
    /\ ~isScanning
    /\ error = ErrScan
    /\ ~ScanInProgress

-----------------------------------------------------------------------------
(***************************************************************************)
(* SpecPrintText: printText calls made one after the other on the port,    *)
(* over every combination of the options, with the port opening and        *)
(* failing and any write failing.  As in printReceipt, no call follows a   *)
(* call that threw.                                                        *)
(***************************************************************************)
\* the texts written to the port so far
TextsIn(log) == {i \in 1..Len(log) : log[i].kind = "text"}

\* the calls printText(text, {bold, center, doubleSize})
TextCalls ==
    {Line(Plain("MINI ATM RECEIPT"), bold, center, doubleSize, FALSE) :
        bold \in BOOLEAN, center \in BOOLEAN, doubleSize \in BOOLEAN}

\* printText(text, options) up to its first sendCommand
PrintTextCall(l) ==
    /\ printerService
    /\ runs["a"].status \in {"idle", "done"}
    /\ Cardinality(TextsIn(port.out)) < MaxCalls
    /\ runs' = [runs EXCEPT !["a"] =
                  [NoRun EXCEPT !.plan = PrintText(l), !.status = "printing"]]
    /\ written' = [written EXCEPT !["a"] = <<>>]
    /\ UNCHANGED <<storeVars, restVars, clientVars, readerVars, channelVars,
                   printerConnected, port>>

\* one sendCommand of a printText call: it throws without a write when the
\* port is not connected, or the write fails, or the segment is written
PrintTextWrite(ok) ==
    /\ runs["a"].status = "printing"
    /\ LET segs == runs["a"].plan
           n == Len(written["a"]) + 1
       IN  IF ~printerConnected
           THEN /\ runs' = [runs EXCEPT !["a"].status = "failed",
                                        !["a"].cause = "port"]
                /\ UNCHANGED <<written, port>>
           ELSE IF ~ok
           THEN /\ runs' = [runs EXCEPT !["a"].status = "failed",
                                        !["a"].cause = "write"]
                /\ UNCHANGED <<written, port>>
           ELSE /\ runs' = [runs EXCEPT !["a"].status =
                               IF n < Len(segs) THEN "printing" ELSE "done"]
                /\ written' = [written EXCEPT !["a"] = Append(@, segs[n])]
                /\ port' = [port EXCEPT !.out = Append(@, segs[n]),
                                        !.writer = "a"]
    /\ UNCHANGED <<storeVars, restVars, clientVars, readerVars, channelVars,
                   printerConnected>>

InitPrintText ==
    /\ InitPrinter
    /\ printerService

NextPrintText ==
    \/ PortOpen
    \/ PortError
    \/ \E l \in TextCalls : PrintTextCall(l)
    \/ \E ok \in BOOLEAN : PrintTextWrite(ok)

SpecPrintText == InitPrintText /\ [][NextPrintText]_vars

\* the modes of printText: the command that switches one on, and off
Modes ==
    { <<ALIGN_CENTER, ALIGN_LEFT>>, <<BOLD_ON, BOLD_OFF>>,
      <<FONT_SIZE_DOUBLE, FONT_SIZE_NORMAL>> }

\* C28: after every printText call that completes the formatting state of
\* the printer is the default (left-aligned, bold off, normal size), for
\* every combination of bold, center and doubleSize; each mode the call
\* switched on before its text it switched off after it.
C28_FormattingReset ==
    runs["a"].status = "done" =>
        /\ \A m \in Modes :
              ~InForce(port.out, Len(port.out) + 1, m[1], m[2])
        /\ LET log == written["a"]
           IN  \A m \in Modes, j \in 1..Len(log) :
                  log[j] = Cmd(m[1]) =>
                      \E t \in TextsIn(log), k \in 1..Len(log) :
                          j < t /\ t < k /\ log[k] = Cmd(m[2])

\* C28 witness: a second call, with all three options, has completed.
C28_Witness ==
    /\ runs["a"].status = "done"
    /\ Len(written["a"]) = 7
    /\ Cardinality(TextsIn(port.out)) = 2

-----------------------------------------------------------------------------
\* C29: once the stop() handle of startContinuousRead has been called the
\* callback is not invoked again, not even for a read that was in flight.
C29_NoCallbackAfterStop ==
    [][polling = "stopped" =>
          /\ ~MockReadDone
          /\ \A u \in UIDs : ~Emits(u)]_vars

-----------------------------------------------------------------------------
(***************************************************************************)
(* SpecPolling: the two pollers of the reader side by side, the interval   *)
(* of a WebSocket connection and startContinuousRead of the RFIDReader,    *)
(* reading the card that is on the reader, any read failing.               *)
(***************************************************************************)
InitPolling ==
    /\ InitChannel
    /\ rfidReader
    /\ ~printerService

NextPolling ==
    \/ \E uid \in TapCards : PlaceCard(uid)
    \/ RemoveCard
    \/ WsConnection(1)
    \/ \E r \in ReadResults : WsPoll(1, r)
    \/ WsClose(1)
    \/ StartContinuousRead
    \/ StopContinuousRead
    \/ Tick
    \/ \E r \in CardReads : PollRead(r)
    \/ \E t \in timers : ClearTimer(t)

SpecPolling == InitPolling /\ [][NextPolling]_vars

\* C30: a read failure during polling sends nothing to the client or the
\* callback and does not stop the polling: the next tick still reads, and
\* a card read on a tick after a failed one is still reported.
C30_ReadFailureKeepsPolling ==
    /\ [][/\ PollRead("error") =>
               /\ \A u \in UIDs : ~Emits(u)
               /\ polling' = polling
               /\ lastUid' = lastUid
               /\ timers' = timers
               /\ conns' = conns
           /\ \A c \in ConnIds : WsPoll(c, "error") => conns' = conns
           /\ \A u \in UIDs :
                 (lastRead = "error" /\ PollRead(u) /\ u # lastUid) => Emits(u)
           /\ \A d \in ConnIds, v \in UIDs :
                 (WsPoll(d, v) /\ conns[d].state = "open") =>
                     conns'[d].sent = Append(conns[d].sent,
                                             Message("card_detected", v, tap))
          ]_vars
    /\ []((polling = "on" /\ lastRead = "error" /\ now < MaxTime) =>
              \/ ENABLED Tick
              \/ ENABLED (\E r \in CardReads : PollRead(r))
              \/ ENABLED (\E t \in timers : ClearTimer(t)))

\* C30 witness: the last read of startContinuousRead failed, with a card on
\* the reader, while the polling and the interval of an open connection
\* are still on.
C30_Witness ==
    /\ lastRead = "error"
    /\ polling = "on"
    /\ card # NULL
    /\ conns[1].state = "open"
    /\ conns[1].timers = 1
    /\ conns[1].sent = <<Message("connected", NULL, 0)>>

=============================================================================
